---- MODULE Spec2Model ----
(***************************************************************************)
(* Terrain chunk mesh generation (src/terrain/chunk.rs).                   *)
(*                                                                         *)
(* A caller lays out one column of chunks: for a fixed chunk_size,         *)
(* quad_size and noise sampler it builds a TerrainChunk per origin row and *)
(* turns it into a bundle with to_bundle, which calls generate_mesh,       *)
(* computes the placement transform and adds the uv debug texture to the   *)
(* images.  generate_mesh is modelled step by step: the prelude (capacity  *)
(* computations), one step per iteration of the outer row loop, and the    *)
(* return.                                                                 *)
(*                                                                         *)
(* Numbers.  f32/f64 values are modelled as exact numbers of the field     *)
(* Q(cos 45deg): a + b*cos(pi/4) with a, b rational, so that the rotation  *)
(* by Quat::from_rotation_x(FRAC_PI_4) is exact.  Rounding, signed zeros   *)
(* and non-finite values are outside the model.  u16 arithmetic keeps its  *)
(* width: with overflow checks (debug profile) an overflow panics, without *)
(* them (release profile) it wraps.                                        *)
(***************************************************************************)
EXTENDS Integers, Sequences, FiniteSets, TLC

VARIABLES
    overflow_checks,  \* build profile: TRUE = overflow checks on (debug)
    column,           \* origin.x of the column of chunks the caller lays out
    origin_rows,      \* the origin.y values of that column
    noise,            \* the sampler handed to generate_mesh
    chunk_size,       \* (columns, rows) the caller builds chunks with
    quad_size,        \* (x, y) edge lengths the caller builds chunks with
    bundles,          \* the bundles to_bundle has returned so far
    images,           \* the distinct images added to Assets<Image>
    pc,               \* "idle" | "prelude" | "rows" | "mesh" | "panicked"
    self,             \* the TerrainChunk of the call in progress
    num_vertices,     \* generate_mesh local (line 47)
    num_indices,      \* generate_mesh local (line 48)
    z,                \* outer loop variable (line 58)
    positions,        \* generate_mesh local buffers (lines 49-53)
    normals,
    uvs,
    indices

\* what the caller fixes for the whole run
inputs == <<overflow_checks, column, origin_rows, noise, chunk_size, quad_size>>

vars == <<inputs, bundles, images, pc, self, num_vertices, num_indices, z,
          positions, normals, uvs, indices>>

----------------------------------------------------------------------------
(* Bounds of the model *)

MaxGrid == 2        \* columns and rows range over 1..MaxGrid
MaxBundles == 2     \* bundles kept in the world
MaxOriginY == 2     \* origin.y ranges over -MaxOriginY..MaxOriginY
MaxVertices == 121  \* a call is followed while its buffers hold at most this many vertices

----------------------------------------------------------------------------
(* Exact rationals <<n, d>>, d > 0, in lowest terms *)

RECURSIVE GCD(_, _)
GCD(a, b) == IF b = 0 THEN a ELSE GCD(b, a % b)

Abs(n) == IF n < 0 THEN -n ELSE n

Rat(n, d) ==
    LET s == IF d < 0 THEN -1 ELSE 1
        g == GCD(Abs(n), Abs(d))
    IN  <<(s * n) \div g, (s * d) \div g>>

RAdd(p, q) == Rat(p[1] * q[2] + q[1] * p[2], p[2] * q[2])
RNeg(p) == <<-p[1], p[2]>>
RSub(p, q) == RAdd(p, RNeg(q))
RMul(p, q) == Rat(p[1] * q[1], p[2] * q[2])
RDiv(p, q) == Rat(p[1] * q[2], p[2] * q[1])
RLt(p, q) == p[1] * q[2] < q[1] * p[2]
RZero == <<0, 1>>

(* Numbers a + b*cos(pi/4); cos(pi/4)^2 = 1/2 *)

Num(p) == [a |-> p, b |-> RZero]
Int2F(n) == Num(<<n, 1>>)
FZero == Int2F(0)
FAdd(u, v) == [a |-> RAdd(u.a, v.a), b |-> RAdd(u.b, v.b)]
FNeg(u) == [a |-> RNeg(u.a), b |-> RNeg(u.b)]
FSub(u, v) == FAdd(u, FNeg(v))
FMul(u, v) ==
    [a |-> RAdd(RMul(u.a, v.a), RMul(<<1, 2>>, RMul(u.b, v.b))),
     b |-> RAdd(RMul(u.a, v.b), RMul(u.b, v.a))]
FDiv(u, v) == [a |-> RDiv(u.a, v.a), b |-> RDiv(u.b, v.a)]  \* v rational
MulCos45(u) == [a |-> RMul(<<1, 2>>, u.b), b |-> u.a]
\* a + b*cos(pi/4) > 0
FPos(u) ==
    LET sa == IF RLt(RZero, u.a) THEN 1 ELSE IF RLt(u.a, RZero) THEN -1 ELSE 0
        sb == IF RLt(RZero, u.b) THEN 1 ELSE IF RLt(u.b, RZero) THEN -1 ELSE 0
        a2 == RMul(u.a, u.a)
        b2 == RMul(<<1, 2>>, RMul(u.b, u.b))
    IN  \/ sa >= 0 /\ sb >= 0 /\ sa + sb > 0
        \/ sa > 0 /\ sb < 0 /\ RLt(b2, a2)
        \/ sa < 0 /\ sb > 0 /\ RLt(a2, b2)

(* glam Vec3 *)

Vec3(x, y, w) == <<x, y, w>>
Vec3Add(u, v) == <<FAdd(u[1], v[1]), FAdd(u[2], v[2]), FAdd(u[3], v[3])>>
Vec3Sub(u, v) == <<FSub(u[1], v[1]), FSub(u[2], v[2]), FSub(u[3], v[3])>>
Vec3Scale(u, s) == <<FMul(u[1], s), FMul(u[2], s), FMul(u[3], s)>>
Vec3Y == Vec3(FZero, Int2F(1), FZero)
\* Vec3::lerp: self + (rhs - self) * s
Vec3Lerp(u, rhs, s) == Vec3Add(u, Vec3Scale(Vec3Sub(rhs, u), s))
Vec3Cross(u, v) ==
    <<FSub(FMul(u[2], v[3]), FMul(u[3], v[2])),
      FSub(FMul(u[3], v[1]), FMul(u[1], v[3])),
      FSub(FMul(u[1], v[2]), FMul(u[2], v[1]))>>

\* slope * v with slope = Quat::from_rotation_x(FRAC_PI_4):
\* (x, y cos - z sin, y sin + z cos), cos = sin = cos(pi/4)
SlopeMul(v) == <<v[1], MulCos45(FSub(v[2], v[3])), MulCos45(FAdd(v[2], v[3]))>>

----------------------------------------------------------------------------
(* u16 arithmetic *)

U16Modulus == 65536

\* a * b for u16 a, b: whether it overflows, and the wrapped product
U16MulOverflows(a, b) == b # 0 /\ a > (U16Modulus - 1) \div b
U16WrappingMul(a, b) ==
    ((a % 256) * b + (((a \div 256) * b) % 256) * 256) % U16Modulus
U16SubOverflows(a, b) == a < b
U16WrappingSub(a, b) == (a - b) % U16Modulus
U16AddOverflows(a, b) == a + b >= U16Modulus
U16WrappingAdd(a, b) == (a + b) % U16Modulus

----------------------------------------------------------------------------
(* The noise sampler: deterministic height functions of the sample point *)

Samplers == {"zero", "ridged"}

NoiseGet(n, sx, sz) ==
    CASE n = "zero" -> <<0, 1>>
      [] n = "ridged" -> Rat(((3 * sx + 5 * sz) % 7) - 3, 2)

----------------------------------------------------------------------------
(* TerrainChunk *)

NoChunk == [quad_size |-> <<>>, chunk_size |-> <<>>, origin_vertex |-> <<>>,
            noise_seed |-> 0]

TerrainChunkNew(origin_vertex, cs, qs, noise_seed) ==
    [quad_size |-> qs, chunk_size |-> cs, noise_seed |-> noise_seed,
     origin_vertex |-> origin_vertex]

----------------------------------------------------------------------------
(* generate_mesh: one vertex (x, row) of chunk c under sampler n *)

Columns(c) == c.chunk_size[1]
Rows(c) == c.chunk_size[2]

\* line 60
Tx(c, x) == FSub(FDiv(Int2F(x), Int2F(Columns(c))), Num(<<1, 2>>))
\* line 61
XPosition(c, x) == FMul(FMul(Tx(c, x), Int2F(Columns(c))), c.quad_size[1])
\* line 62
ZPosition(c, row) == FMul(Int2F(row), c.quad_size[2])
\* line 64
SampleX(c, x) == x + c.origin_vertex[1] * Columns(c)
\* mutant: the sample row is not mirrored
SampleZUnmirrored(c, row) == row + c.origin_vertex[2] * Rows(c)
\* lines 65-67
SampleZ(c, row) == Rows(c) - row + c.origin_vertex[2] * Rows(c)
\* line 68
NoiseSample(c, n, x, row) == Num(NoiseGet(n, SampleX(c, x), SampleZ(c, row)))
\* line 69
SlopedNoise(c, n, x, row) == SlopeMul(Vec3(FZero, NoiseSample(c, n, x, row), FZero))
\* line 71
SlopedPosition(c, x, row) ==
    Vec3(XPosition(c, x), FNeg(ZPosition(c, row)), ZPosition(c, row))
\* line 72
UnslopedPosition(c, x, row) == Vec3(XPosition(c, x), FZero, ZPosition(c, row))
\* line 73
TargetPosition(c, n, x, row) ==
    Vec3Add(SlopedPosition(c, x, row), SlopedNoise(c, n, x, row))
\* mutant: the blend ratio runs the other way
ChunkZRatioInverted(c, row) == FDiv(Int2F(row), Int2F(Rows(c)))
\* lines 80-81
ChunkZRatio(c, row) == FDiv(FSub(Int2F(Rows(c)), Int2F(row)), Int2F(Rows(c)))
\* mutant: the flat branch pushes the ramp position
FlatPositionSloped(c, x, row) == SlopedPosition(c, x, row)
\* line 76
FlatPosition(c, x, row) == UnslopedPosition(c, x, row)
\* lines 83-87
BlendedPosition(c, n, x, row) ==
    Vec3Lerp(TargetPosition(c, n, x, row), UnslopedPosition(c, x, row),
             ChunkZRatio(c, row))
\* lines 75-93
VertexPosition(c, n, x, row) ==
    IF c.origin_vertex[2] > 0 THEN FlatPosition(c, x, row)
    ELSE IF c.origin_vertex[2] = 0 THEN BlendedPosition(c, n, x, row)
    ELSE TargetPosition(c, n, x, row)

\* line 97: (self.chunk_size.1 + 1) as i32, the u16 sum wrapped
UvDivisor(c) == U16WrappingAdd(Rows(c), 1)
\* line 97 panics: the u16 sum overflows under overflow checks, or the
\* wrapped divisor is zero
UvPanics(c, checks) ==
    \/ checks /\ U16AddOverflows(Rows(c), 1)
    \/ UvDivisor(c) = 0
\* lines 95-98
VertexUv(c, x, row) ==
    <<Tx(c, x), FDiv(Int2F(row % UvDivisor(c)), Int2F(Rows(c)))>>

\* mutant: the column range excludes its end
RowVertexCountExclusive(c) == Columns(c)
\* line 59: x in 0..=chunk_size.0, the number of vertices of a row
RowVertexCount(c) == Columns(c) + 1
\* line 58: z in 0..=chunk_size.1, the last row
LastRow(c) == Rows(c)

RowPositions(c, n, row) ==
    [i \in 1..RowVertexCount(c) |-> VertexPosition(c, n, i - 1, row)]
RowNormals(c, row) == [i \in 1..RowVertexCount(c) |-> Vec3Y]
RowUvs(c, row) == [i \in 1..RowVertexCount(c) |-> VertexUv(c, i - 1, row)]

\* mutant: the row stride is one too wide
RowOffsetWide(c) == Columns(c) + 2
\* line 103
RowOffset(c) == Columns(c) + 1
\* line 104
QuadIndex(c, x, row) == RowOffset(c) * row + x
\* mutant: both triangles wound the other way
QuadTrianglesClockwise(ro, qi) == <<qi + ro + 1, qi + ro, qi + 1, qi, qi + 1, qi + ro>>
\* lines 105-112: right triangle, then left triangle
QuadTriangles(ro, qi) == <<qi + ro + 1, qi + 1, qi + ro, qi, qi + ro, qi + 1>>
\* lines 101-114
RowIndices(c, row) ==
    IF row < Rows(c)
    THEN [i \in 1..(6 * Columns(c)) |->
            QuadTriangles(RowOffset(c), QuadIndex(c, (i - 1) \div 6, row))[((i - 1) % 6) + 1]]
    ELSE <<>>

----------------------------------------------------------------------------
(* to_bundle: the placement transform, lines 132-136 *)

\* mutant: origin.y is not clamped
ClampNone(n) == n
\* line 133: clamp(NEG_INFINITY, 0.)
ClampNonPositive(n) == IF n > 0 THEN 0 ELSE n

TransformX(c) ==
    FMul(FMul(Int2F(c.origin_vertex[1]), Int2F(Columns(c))), c.quad_size[1])
TransformY(c) ==
    FMul(FMul(Int2F(ClampNonPositive(c.origin_vertex[2])), Int2F(Rows(c))),
         c.quad_size[2])
TransformZ(c) ==
    FMul(FNeg(FMul(Int2F(c.origin_vertex[2]), Int2F(Rows(c)))), c.quad_size[2])
Transform(c) == Vec3(TransformX(c), TransformY(c), TransformZ(c))

----------------------------------------------------------------------------
(* uv_debug_texture, lines 161-186 *)

TEXTURE_SIZE == 8

Palette ==
    <<255, 102, 159, 255, 255, 159, 102, 255, 236, 255, 102, 255, 121, 255, 102, 255,
      102, 255, 198, 255, 102, 198, 255, 255, 121, 102, 255, 255, 236, 102, 255, 255>>

\* slice::rotate_right(k)
RotateRight(s, k) == SubSeq(s, Len(s) - k + 1, Len(s)) \o SubSeq(s, 1, Len(s) - k)

\* line 172: texture_data[offset..offset + len].copy_from_slice(palette)
CopyFromSlice(data, offset, palette) ==
    [i \in 1..Len(data) |->
        IF offset < i /\ i <= offset + Len(palette) THEN palette[i - offset] ELSE data[i]]

\* mutant: the palette is rotated left
NextPaletteLeft(palette) == SubSeq(palette, 5, Len(palette)) \o SubSeq(palette, 1, 4)
\* the palette after the loop body of row y
NextPalette(palette) == RotateRight(palette, 4)

\* lines 170-174, from row y on
RECURSIVE TextureLoop(_, _, _)
TextureLoop(y, palette, data) ==
    IF y = TEXTURE_SIZE THEN data
    ELSE TextureLoop(y + 1, NextPalette(palette),
                     CopyFromSlice(data, TEXTURE_SIZE * y * 4, palette))

UvDebugTexture ==
    [width |-> TEXTURE_SIZE, height |-> TEXTURE_SIZE,
     data |-> TextureLoop(0, Palette, [i \in 1..(TEXTURE_SIZE * TEXTURE_SIZE * 4) |-> 0])]

----------------------------------------------------------------------------
(* Inputs *)

GridSizes == (1..MaxGrid) \X (1..MaxGrid)
QuadSizes == {<<Int2F(2), Int2F(2)>>, <<Num(<<1, 2>>), Int2F(3)>>}
OriginXs == {-1, 2}
OriginYs == (-MaxOriginY)..MaxOriginY

InitWith(sizes, quads, samplers, ys) ==
    /\ overflow_checks \in BOOLEAN
    /\ column \in OriginXs
    /\ origin_rows = ys
    /\ noise \in samplers
    /\ chunk_size \in sizes
    /\ quad_size \in quads
    /\ bundles = {}
    /\ images = {}
    /\ pc = "idle"
    /\ self = NoChunk
    /\ num_vertices = 0
    /\ num_indices = 0
    /\ z = 0
    /\ positions = <<>>
    /\ normals = <<>>
    /\ uvs = <<>>
    /\ indices = <<>>

Init == InitWith(GridSizes, QuadSizes, Samplers, OriginYs)

----------------------------------------------------------------------------
(* Actions *)

\* the caller: TerrainChunk::new(origin, ..).to_bundle(noise, ..), up to the
\* call of generate_mesh on line 131
ToBundleCall(origin_y) ==
    /\ pc = "idle"
    /\ Cardinality(bundles) < MaxBundles
    /\ self' = TerrainChunkNew(<<column, origin_y>>, chunk_size, quad_size, 0)
    /\ pc' = "prelude"
    /\ UNCHANGED <<inputs, bundles, images, num_vertices, num_indices, z,
                   positions, normals, uvs, indices>>

\* lines 47-48: whether a u16 operation of the capacity computations overflows
PreludeOverflows(c) ==
    \/ U16MulOverflows(Columns(c), Rows(c))
    \/ U16SubOverflows(Columns(c), 1)
    \/ U16SubOverflows(Rows(c), 1)
    \/ U16MulOverflows(U16WrappingSub(Columns(c), 1), U16WrappingSub(Rows(c), 1))
    \/ U16MulOverflows(U16WrappingMul(U16WrappingSub(Columns(c), 1),
                                      U16WrappingSub(Rows(c), 1)), 6)
\* line 47
NumVertices(c) == U16WrappingMul(Columns(c), Rows(c))
\* line 48
NumIndices(c) ==
    U16WrappingMul(U16WrappingMul(U16WrappingSub(Columns(c), 1),
                                  U16WrappingSub(Rows(c), 1)), 6)

\* lines 47-55
GenerateMeshPrelude ==
    /\ pc = "prelude"
    /\ IF overflow_checks /\ PreludeOverflows(self)
       THEN /\ pc' = "panicked"
            /\ UNCHANGED <<num_vertices, num_indices>>
       ELSE /\ num_vertices' = NumVertices(self)
            /\ num_indices' = NumIndices(self)
            /\ pc' = "rows"
    /\ z' = 0
    /\ positions' = <<>>
    /\ normals' = <<>>
    /\ uvs' = <<>>
    /\ indices' = <<>>
    /\ UNCHANGED <<inputs, bundles, images, self>>

\* lines 58-115: one iteration of the outer loop
GenerateMeshRow ==
    /\ pc = "rows"
    /\ z <= LastRow(self)
    /\ Len(positions) + RowVertexCount(self) <= MaxVertices
    /\ IF UvPanics(self, overflow_checks)
       THEN /\ pc' = "panicked"
            /\ UNCHANGED <<z, positions, normals, uvs, indices>>
       ELSE /\ positions' = positions \o RowPositions(self, noise, z)
            /\ normals' = normals \o RowNormals(self, z)
            /\ uvs' = uvs \o RowUvs(self, z)
            /\ indices' = indices \o RowIndices(self, z)
            /\ z' = z + 1
            /\ pc' = IF z = LastRow(self) THEN "mesh" ELSE "rows"
    /\ UNCHANGED <<inputs, bundles, images, self, num_vertices, num_indices>>

\* lines 117-122
Mesh == [indices |-> indices, positions |-> positions, normals |-> normals,
         uvs |-> uvs]

\* lines 117-122 and 132-157: generate_mesh returns, to_bundle builds the bundle
ToBundleReturn ==
    /\ pc = "mesh"
    /\ bundles' = bundles \cup
          {[mesh |-> Mesh, transform |-> Transform(self), chunk |-> self]}
    /\ images' = images \cup {UvDebugTexture}
    /\ pc' = "idle"
    /\ self' = NoChunk
    /\ num_vertices' = 0
    /\ num_indices' = 0
    /\ z' = 0
    /\ positions' = <<>>
    /\ normals' = <<>>
    /\ uvs' = <<>>
    /\ indices' = <<>>
    /\ UNCHANGED inputs

Next ==
    \/ \E origin_y \in origin_rows : ToBundleCall(origin_y)
    \/ GenerateMeshPrelude
    \/ GenerateMeshRow
    \/ ToBundleReturn

Spec == Init /\ [][Next]_vars

\* the placement example: a 10 x 10 grid among the small ones
InitExample == InitWith(GridSizes \cup {<<10, 10>>}, QuadSizes, {"zero"}, {-3, 0, 1})
SpecExample == InitExample /\ [][Next]_vars

\* grids over the whole u16 range
WideSizes == {1, 256, U16Modulus - 1} \X {1, 256, U16Modulus - 1}
InitWide == InitWith(WideSizes, {<<Int2F(2), Int2F(2)>>}, {"zero"}, {-1, 0})
SpecWide == InitWide /\ [][Next]_vars

----------------------------------------------------------------------------
(* Reading a finished bundle *)

OriginX(b) == b.chunk.origin_vertex[1]
OriginY(b) == b.chunk.origin_vertex[2]
\* the position of vertex (x, row) in the vertex buffer (1-based)
VertexSlot(b, x, row) == (Columns(b.chunk) + 1) * row + x + 1
LocalPosition(b, x, row) == b.mesh.positions[VertexSlot(b, x, row)]
\* the vertex as placed by the bundle's transform
WorldPosition(b, x, row) == Vec3Add(LocalPosition(b, x, row), b.transform)
\* the position of 0-based index i
IndexedPosition(b, i) == b.mesh.positions[i + 1]
\* the k-th index (0-based) of the quad (x, row)
QuadSlot(b, x, row, k) == b.mesh.indices[6 * (Columns(b.chunk) * row + x) + k + 1]
\* y component of (p1 - p0) x (p2 - p0)
FacingY(p0, p1, p2) == Vec3Cross(Vec3Sub(p1, p0), Vec3Sub(p2, p0))[2]

----------------------------------------------------------------------------
(* Claims *)

\* the mesh and chunk of the call in progress, read like a bundle
Returning == [mesh |-> Mesh, chunk |-> self]

\* C1: when generate_mesh returns for a grid of c columns and r rows, the
\* mesh has exactly (c+1)*(r+1) positions, normals and UVs and exactly 6*c*r
\* indices.
C1_Cardinality ==
    pc = "mesh"
    => LET c == Columns(self)
           r == Rows(self)
       IN  /\ Len(Mesh.positions) = (c + 1) * (r + 1)
           /\ Len(Mesh.normals) = (c + 1) * (r + 1)
           /\ Len(Mesh.uvs) = (c + 1) * (r + 1)
           /\ Len(Mesh.indices) = 6 * c * r

\* generate_mesh returns the mesh of a non-square grid
C1_Witness ==
    pc = "mesh" /\ Columns(self) = 2 /\ Rows(self) = 1

\* C2: when generate_mesh returns, every index is below (c+1)*(r+1) and
\* names a vertex of the finished vertex buffer.
C2_IndexBounds ==
    pc = "mesh"
    => \A i \in 1..Len(Mesh.indices) :
          /\ Mesh.indices[i] >= 0
          /\ Mesh.indices[i] < (Columns(self) + 1) * (Rows(self) + 1)
          /\ Mesh.indices[i] < Len(Mesh.positions)

\* generate_mesh returns a mesh that uses the last vertex of its buffer
C2_Witness ==
    /\ pc = "mesh"
    /\ Columns(self) = 2
    /\ \E i \in 1..Len(Mesh.indices) :
          Mesh.indices[i] = (Columns(self) + 1) * (Rows(self) + 1) - 1

\* C3: for two bundles of the same column whose origins are (ox, oy+1) and
\* (ox, oy), the world position of vertex (x, rows) of the first equals the
\* world position of vertex (x, 0) of the second, for every column x.
C3_NoCrack ==
    \A a \in bundles, b \in bundles :
        (OriginX(a) = OriginX(b) /\ OriginY(a) = OriginY(b) + 1)
        => \A x \in 0..Columns(a.chunk) :
              WorldPosition(a, x, Rows(a.chunk)) = WorldPosition(b, x, 0)

\* the blended chunk and the displaced chunk below it are both placed, and
\* the seam carries a non-zero sampled height
C3_Witness ==
    \E a \in bundles, b \in bundles :
        /\ OriginX(a) = OriginX(b)
        /\ OriginY(a) = 0
        /\ OriginY(b) = -1
        /\ \E x \in 0..Columns(b.chunk) :
              NoiseSample(b.chunk, noise, x, 0) # FZero

\* C4: when generate_mesh returns for a chunk with origin.y = 0, the blend
\* ratio is 1 at row 0 and 0 at the last row: row 0 holds the unsloped
\* positions and the last row holds the sloped-with-noise positions.
C4_BlendBoundary ==
    (pc = "mesh" /\ OriginY(Returning) = 0)
    => /\ ChunkZRatio(self, 0) = Int2F(1)
       /\ ChunkZRatio(self, Rows(self)) = FZero
       /\ \A x \in 0..Columns(self) :
             /\ LocalPosition(Returning, x, 0) = <<XPosition(self, x), FZero, FZero>>
             /\ LocalPosition(Returning, x, Rows(self))
                  = Vec3Add(SlopedPosition(self, x, Rows(self)),
                            SlopedNoise(self, noise, x, Rows(self)))

\* a blended mesh is returned whose two boundary rows both sample non-zero
\* heights
C4_Witness ==
    /\ pc = "mesh"
    /\ OriginY(Returning) = 0
    /\ Rows(self) = 2
    /\ \E x \in 0..Columns(self) : NoiseSample(self, noise, x, 0) # FZero
    /\ \E x \in 0..Columns(self) : NoiseSample(self, noise, x, Rows(self)) # FZero

\* C5: when generate_mesh returns for a chunk with origin.y > 0, every
\* vertex has y = 0, whatever the sampler returns.
C5_FlatChunk ==
    (pc = "mesh" /\ OriginY(Returning) > 0)
    => \A i \in 1..Len(Mesh.positions) : Mesh.positions[i][2] = FZero

\* a flat mesh is returned that was built over non-zero sampled heights
C5_Witness ==
    /\ pc = "mesh"
    /\ OriginY(Returning) > 0
    /\ \E x \in 0..Columns(self), row \in 1..Rows(self) :
          NoiseSample(self, noise, x, row) # FZero

\* C6: the placement offset is (origin.x * columns * quad_size.x,
\* min(origin.y, 0) * rows * quad_size.y, -(origin.y * rows * quad_size.y));
\* world_y is 0 when origin.y >= 0; origin (2, -3), grid (10, 10), quad
\* (2, 2) gives (40, -60, 60).
C6_Placement ==
    \A b \in bundles :
        LET ox == OriginX(b)
            oy == OriginY(b)
            c == Columns(b.chunk)
            r == Rows(b.chunk)
            q == b.chunk.quad_size
        IN  /\ b.transform[1] = FMul(Int2F(ox * c), q[1])
            /\ b.transform[2] = FMul(Int2F((IF oy < 0 THEN oy ELSE 0) * r), q[2])
            /\ b.transform[3] = FMul(Int2F(-(oy * r)), q[2])
            /\ oy >= 0 => b.transform[2] = FZero
            /\ (ox = 2 /\ oy = -3 /\ c = 10 /\ r = 10 /\ q = <<Int2F(2), Int2F(2)>>)
               => b.transform = <<Int2F(40), Int2F(-60), Int2F(60)>>

\* the example chunk has been bundled
C6_Witness ==
    \E b \in bundles :
        /\ b.chunk.origin_vertex = <<2, -3>>
        /\ b.chunk.chunk_size = <<10, 10>>
        /\ b.chunk.quad_size = <<Int2F(2), Int2F(2)>>

\* C7: the debug texture is 8 rows of 8 RGBA texels (256 bytes); row 0 is
\* the palette; each row is the previous one rotated right by one texel, so
\* texel i of row y is palette texel (i - y) mod 8.
C7_DebugTexture ==
    \A t \in images :
        /\ t.width = 8 /\ t.height = 8
        /\ Len(t.data) = 256
        /\ \A j \in 1..32 : t.data[j] = Palette[j]
        /\ \A y \in 0..6 : \A j \in 0..31 :
              t.data[32 * (y + 1) + ((j + 4) % 32) + 1] = t.data[32 * y + j + 1]
        /\ \A y \in 0..7 : \A i \in 0..7 : \A k \in 1..4 :
              t.data[32 * y + 4 * i + k] = Palette[4 * ((i - y) % 8) + k]

\* a texture has been made, and its row 1 starts with the last palette texel
C7_Witness ==
    \E t \in images : SubSeq(t.data, 33, 36) = SubSeq(Palette, 29, 32)

\* C8: generate_mesh has no error outcome for grids 1 <= c, r <= 65535: the
\* call never panics and no u16 computation of lines 47-48 overflows.
C8_NoOverflow ==
    /\ pc # "panicked"
    /\ pc \in {"rows", "mesh"} => ~PreludeOverflows(self)

\* C9: when generate_mesh returns, each quad (x, row) has contributed the
\* triangles (q+s+1, q+1, q+s) and (q, q+s, q+1), s = columns+1,
\* q = s*row + x, and with the zero sampler both face up:
\* (p1 - p0) x (p2 - p0) has a positive y component.
C9_Winding ==
    pc = "mesh"
    => \A x \in 0..(Columns(self) - 1), row \in 0..(Rows(self) - 1) :
          LET s == Columns(self) + 1
              q == s * row + x
              T(k) == QuadSlot(Returning, x, row, k)
              P(k) == IndexedPosition(Returning, T(k))
          IN  /\ <<T(0), T(1), T(2)>> = <<q + s + 1, q + 1, q + s>>
              /\ <<T(3), T(4), T(5)>> = <<q, q + s, q + 1>>
              /\ noise = "zero"
                 => /\ FPos(FacingY(P(0), P(1), P(2)))
                    /\ FPos(FacingY(P(3), P(4), P(5)))

\* a displaced mesh of several quads is returned, built with the zero sampler
C9_Witness ==
    /\ pc = "mesh"
    /\ noise = "zero"
    /\ OriginY(Returning) < 0
    /\ Columns(self) = 2
    /\ Rows(self) = 2

\* C10: when the loops have finished, the counts computed up front equal
\* the numbers of vertices and indices pushed.
C10_CapacityMatches ==
    pc = "mesh"
    => /\ num_vertices = Len(positions)
       /\ num_indices = Len(indices)

====
